---- MODULE Spec2Model ----
(***************************************************************************)
(* A model of hera's affinity builders (src/hera/affinity.py) and of the   *)
(* workflow service (src/hera/v1/workflow_service.py).                     *)
(*                                                                         *)
(* Python values are tagged records, so that None, lists, strings and      *)
(* objects can be compared with one another.  The outcome of a call is     *)
(* either Return(value) or Raise(exception class).                         *)
(***************************************************************************)
EXTENDS Integers, Sequences, FiniteSets, TLC

VARIABLES
    obj,        \* the affinity node the caller has constructed
    result,     \* the outcome of the latest get_spec() on obj
    prev,       \* the outcome of the get_spec() before that
    calls,      \* how many times get_spec() was invoked on obj
    svc,        \* the WorkflowService instance (_domain, _namespace)
    cluster,    \* what the remote Argo server holds: {<<namespace, name>>}
    lastCall,   \* the latest request the service made to WorkflowServiceApi
    lastOut     \* the outcome of the latest WorkflowService operation

vars == <<obj, result, prev, calls, svc, cluster, lastCall, lastOut>>
affinityVars == <<obj, result, prev, calls>>
serviceVars == <<svc, cluster, lastCall, lastOut>>

----------------------------------------------------------------------------
(* Bounds *)

\* the longest list a caller passes to a constructor
MaxLen == 2
\* how many times get_spec() is invoked on one instance
MaxCalls == 3

----------------------------------------------------------------------------
(* Python values *)

None == [tag |-> "None"]
PyStr(s) == [tag |-> "str", s |-> s]
PyInt(n) == [tag |-> "int", n |-> n]
PyList(items) == [tag |-> "list", items |-> items]
PyDict(pairs) == [tag |-> "dict", pairs |-> pairs]

Return(value) == [tag |-> "return", value |-> value]
Raise(exc) == [tag |-> "raise", exc |-> exc]

\* bool(x): None and empty containers are falsy, any other object is truthy
Truthy(x) ==
    CASE x = None -> FALSE
      [] x.tag = "list" -> Len(x.items) > 0
      [] x.tag = "dict" -> Len(x.pairs) > 0
      [] x.tag = "str" -> x.s # ""
      [] x.tag = "int" -> x.n # 0
      [] OTHER -> TRUE

\* what a call that returned gave back
Value(out) == IF out.tag = "return" THEN out.value ELSE None

\* Cls(k1=..., k2=...): the arguments of a call are evaluated left to right,
\* and the first one that raises is the outcome of the whole call
Call(args, built) ==
    LET bad == {i \in 1..Len(args) : args[i].tag = "raise"}
    IN  IF bad # {}
        THEN args[CHOOSE i \in bad : \A j \in bad : i <= j]
        ELSE Return(built)

\* [e.get_spec() for e in lst], outs being the outcome of get_spec() on each
\* element: iterating None raises TypeError
Items(lst) == IF lst = None THEN <<>> ELSE lst.items
Comprehension(lst, outs) ==
    IF lst = None THEN Raise("TypeError")
    ELSE Call(outs, PyList([i \in 1..Len(outs) |-> Value(outs[i])]))

----------------------------------------------------------------------------
(* The argo_workflows models: a call of one evaluates its keyword arguments *)
(* and keeps the values it is given                                         *)

ArgoNodeSelectorRequirement(values) ==
    Call(<<values>>,
         [tag |-> "ArgoNodeSelectorRequirement", values |-> Value(values)])
ArgoNodeSelectorTerm(match_expressions, match_fields) ==
    Call(<<match_expressions, match_fields>>,
         [tag |-> "ArgoNodeSelectorTerm",
          match_expressions |-> Value(match_expressions),
          match_fields |-> Value(match_fields)])
ArgoNodeSelector(node_selector_terms) ==
    Call(<<node_selector_terms>>,
         [tag |-> "ArgoNodeSelector", node_selector_terms |-> Value(node_selector_terms)])
ArgoPreferredSchedulingTerm(preference, weight) ==
    Call(<<preference, weight>>,
         [tag |-> "ArgoPreferredSchedulingTerm",
          preference |-> Value(preference), weight |-> Value(weight)])
ArgoLabelSelectorRequirement(key, operator, values) ==
    Call(<<key, operator, values>>,
         [tag |-> "ArgoLabelSelectorRequirement",
          key |-> Value(key), operator |-> Value(operator), values |-> Value(values)])
ArgoLabelSelector(match_expressions) ==
    Call(<<match_expressions>>,
         [tag |-> "ArgoLabelSelector", match_expressions |-> Value(match_expressions)])
ArgoPodAffinityTerm(topology_key, label_selector, namespace_selector, namespaces) ==
    Call(<<topology_key, label_selector, namespace_selector, namespaces>>,
         [tag |-> "ArgoPodAffinityTerm",
          topology_key |-> Value(topology_key),
          label_selector |-> Value(label_selector),
          namespace_selector |-> Value(namespace_selector),
          namespaces |-> Value(namespaces)])
ArgoWeightedPodAffinityTerm(pod_affinity_term, weight) ==
    Call(<<pod_affinity_term, weight>>,
         [tag |-> "ArgoWeightedPodAffinityTerm",
          pod_affinity_term |-> Value(pod_affinity_term), weight |-> Value(weight)])
ArgoPodAffinity(preferred, required) ==
    Call(<<preferred, required>>,
         [tag |-> "ArgoPodAffinity",
          preferred_during_scheduling_ignored_during_execution |-> Value(preferred),
          required_during_scheduling_ignored_during_execution |-> Value(required)])
ArgoPodAntiAffinity(preferred, required) ==
    Call(<<preferred, required>>,
         [tag |-> "ArgoPodAntiAffinity",
          preferred_during_scheduling_ignored_during_execution |-> Value(preferred),
          required_during_scheduling_ignored_during_execution |-> Value(required)])
ArgoNodeAffinity(preferred, required) ==
    Call(<<preferred, required>>,
         [tag |-> "ArgoNodeAffinity",
          preferred_during_scheduling_ignored_during_execution |-> Value(preferred),
          required_during_scheduling_ignored_during_execution |-> Value(required)])
ArgoAffinity(pod_affinity, pod_anti_affinity, node_affinity) ==
    Call(<<pod_affinity, pod_anti_affinity, node_affinity>>,
         [tag |-> "ArgoAffinity",
          pod_affinity |-> Value(pod_affinity),
          pod_anti_affinity |-> Value(pod_anti_affinity),
          node_affinity |-> Value(node_affinity)])

----------------------------------------------------------------------------
(* The constructors: every __init__ stores its arguments and checks nothing *)

NodeSelectorRequirement(values) ==
    [tag |-> "NodeSelectorRequirement", values |-> values]
NodeSelectorTerm(expressions, fields) ==
    [tag |-> "NodeSelectorTerm", expressions |-> expressions, fields |-> fields]
PreferredSchedulingTerm(node_selector_terms, weight) ==
    [tag |-> "PreferredSchedulingTerm",
     node_selector_terms |-> node_selector_terms, weight |-> weight]
LabelSelectorRequirement(key, operator, values) ==
    [tag |-> "LabelSelectorRequirement",
     key |-> key, operator |-> operator, values |-> values]
LabelSelector(match_expressions, match_labels) ==
    [tag |-> "LabelSelector",
     match_expressions |-> match_expressions, match_labels |-> match_labels]
PodAffinityTerm(topology_key, label_selector, namespace_selector, namespaces) ==
    [tag |-> "PodAffinityTerm", topology_key |-> topology_key,
     label_selector |-> label_selector, namespace_selector |-> namespace_selector,
     namespaces |-> namespaces]
WeightedPodAffinityTerm(pod_affinity_term, weight) ==
    [tag |-> "WeightedPodAffinityTerm",
     pod_affinity_term |-> pod_affinity_term, weight |-> weight]
PodAffinity(preferred, required) ==
    [tag |-> "PodAffinity",
     preferred_during_scheduling_ignored_during_execution |-> preferred,
     required_during_scheduling_ignored_during_execution |-> required]
PodAntiAffinity(preferred, required) ==
    [tag |-> "PodAntiAffinity",
     preferred_during_scheduling_ignored_during_execution |-> preferred,
     required_during_scheduling_ignored_during_execution |-> required]
NodeAffinity(preferred, required) ==
    [tag |-> "NodeAffinity",
     preferred_during_scheduling_ignored_during_execution |-> preferred,
     required_during_scheduling_ignored_during_execution |-> required]
Affinity(pod_affinity, pod_anti_affinity, node_affinity) ==
    [tag |-> "Affinity", pod_affinity |-> pod_affinity,
     pod_anti_affinity |-> pod_anti_affinity, node_affinity |-> node_affinity]

----------------------------------------------------------------------------
(* class LabelOperator(Enum): the members, and the .value of each *)

LabelOperatorNames == {"In", "NotIn", "Exists", "DoesNotExist"}
LabelOperator(name) == [tag |-> "LabelOperator", member |-> name]
LabelOperators == {LabelOperator(n) : n \in LabelOperatorNames}

\* a table in which NotIn carries the value of In
LabelOperator_value_NotInAsIn(op) ==
    CASE op.member = "In" -> PyStr("In")
      [] op.member = "NotIn" -> PyStr("In")
      [] op.member = "Exists" -> PyStr("Exists")
      [] op.member = "DoesNotExist" -> PyStr("DoesNotExist")

LabelOperator_value(op) ==
    CASE op.member = "In" -> PyStr("In")
      [] op.member = "NotIn" -> PyStr("NotIn")
      [] op.member = "Exists" -> PyStr("Exists")
      [] op.member = "DoesNotExist" -> PyStr("DoesNotExist")

----------------------------------------------------------------------------
(* get_spec() of every class *)

NodeSelectorRequirement_get_spec(self) ==
    IF self.values # None
    THEN ArgoNodeSelectorRequirement(Return(self.values))
    ELSE Return(None)

NodeSelectorTerm_get_spec(self) ==
    IF self.expressions # None \/ self.fields # None
    THEN ArgoNodeSelectorTerm(
             Comprehension(self.expressions,
                 [i \in DOMAIN Items(self.expressions) |->
                     NodeSelectorRequirement_get_spec(Items(self.expressions)[i])]),
             Comprehension(self.fields,
                 [i \in DOMAIN Items(self.fields) |->
                     NodeSelectorRequirement_get_spec(Items(self.fields)[i])]))
    ELSE Return(None)

PreferredSchedulingTerm_get_spec(self) ==
    ArgoPreferredSchedulingTerm(
        ArgoNodeSelector(
            Comprehension(self.node_selector_terms,
                [i \in DOMAIN Items(self.node_selector_terms) |->
                    NodeSelectorTerm_get_spec(Items(self.node_selector_terms)[i])])),
        Return(self.weight))

\* self.operator.value: an attribute access on None raises AttributeError
LabelSelectorRequirement_get_spec(self) ==
    ArgoLabelSelectorRequirement(
        Return(self.key),
        IF self.operator = None THEN Raise("AttributeError")
            ELSE Return(LabelOperator_value(self.operator)),
        Return(self.values))

LabelSelector_get_spec(self) ==
    IF self.match_expressions # None \/ self.match_labels # None
    THEN ArgoLabelSelector(
             Comprehension(self.match_expressions,
                 [i \in DOMAIN Items(self.match_expressions) |->
                     LabelSelectorRequirement_get_spec(Items(self.match_expressions)[i])]))
    ELSE Return(None)

PodAffinityTerm_get_spec(self) ==
    ArgoPodAffinityTerm(
        Return(self.topology_key),
        IF self.label_selector # None
            THEN LabelSelector_get_spec(self.label_selector) ELSE Return(None),
        IF self.namespace_selector # None
            THEN LabelSelector_get_spec(self.namespace_selector) ELSE Return(None),
        IF self.namespaces # None THEN Return(self.namespaces) ELSE Return(None))

\* self.pod_affinity_term.get_spec(): a method call on None raises AttributeError
WeightedPodAffinityTerm_get_spec(self) ==
    ArgoWeightedPodAffinityTerm(
        IF self.pod_affinity_term = None THEN Raise("AttributeError")
            ELSE PodAffinityTerm_get_spec(self.pod_affinity_term),
        Return(self.weight))

PodAffinity_get_spec(self) ==
    IF self.preferred_during_scheduling_ignored_during_execution # None
       \/ self.required_during_scheduling_ignored_during_execution # None
    THEN ArgoPodAffinity(
             IF self.preferred_during_scheduling_ignored_during_execution # None
                 THEN Comprehension(
                          self.preferred_during_scheduling_ignored_during_execution,
                          [i \in DOMAIN Items(
                                  self.preferred_during_scheduling_ignored_during_execution)
                              |-> WeightedPodAffinityTerm_get_spec(
                                      self.preferred_during_scheduling_ignored_during_execution
                                          .items[i])])
                 ELSE Return(None),
             IF self.required_during_scheduling_ignored_during_execution # None
                 THEN Comprehension(
                          self.required_during_scheduling_ignored_during_execution,
                          [i \in DOMAIN Items(
                                  self.required_during_scheduling_ignored_during_execution)
                              |-> PodAffinityTerm_get_spec(
                                      self.required_during_scheduling_ignored_during_execution
                                          .items[i])])
                 ELSE Return(None))
    ELSE Return(None)

PodAntiAffinity_get_spec(self) ==
    IF self.preferred_during_scheduling_ignored_during_execution # None
       \/ self.required_during_scheduling_ignored_during_execution # None
    THEN ArgoPodAntiAffinity(
             IF self.preferred_during_scheduling_ignored_during_execution # None
                 THEN Comprehension(
                          self.preferred_during_scheduling_ignored_during_execution,
                          [i \in DOMAIN Items(
                                  self.preferred_during_scheduling_ignored_during_execution)
                              |-> WeightedPodAffinityTerm_get_spec(
                                      self.preferred_during_scheduling_ignored_during_execution
                                          .items[i])])
                 ELSE Return(None),
             IF self.required_during_scheduling_ignored_during_execution # None
                 THEN Comprehension(
                          self.required_during_scheduling_ignored_during_execution,
                          [i \in DOMAIN Items(
                                  self.required_during_scheduling_ignored_during_execution)
                              |-> PodAffinityTerm_get_spec(
                                      self.required_during_scheduling_ignored_during_execution
                                          .items[i])])
                 ELSE Return(None))
    ELSE Return(None)

\* the two sections are guarded by truthiness here, not by "is not None"
NodeAffinity_get_spec(self) ==
    IF self.preferred_during_scheduling_ignored_during_execution # None
       \/ self.required_during_scheduling_ignored_during_execution # None
    THEN ArgoNodeAffinity(
             IF Truthy(self.preferred_during_scheduling_ignored_during_execution)
                 THEN Comprehension(
                          self.preferred_during_scheduling_ignored_during_execution,
                          [i \in DOMAIN Items(
                                  self.preferred_during_scheduling_ignored_during_execution)
                              |-> PreferredSchedulingTerm_get_spec(
                                      self.preferred_during_scheduling_ignored_during_execution
                                          .items[i])])
                 ELSE Return(None),
             IF Truthy(self.required_during_scheduling_ignored_during_execution)
                 THEN NodeSelectorTerm_get_spec(
                          self.required_during_scheduling_ignored_during_execution)
                 ELSE Return(None))
    ELSE Return(None)

Affinity_get_spec(self) ==
    IF self.pod_affinity # None \/ self.pod_anti_affinity # None
       \/ self.node_affinity # None
    THEN ArgoAffinity(
             IF Truthy(self.pod_affinity)
                 THEN PodAffinity_get_spec(self.pod_affinity) ELSE Return(None),
             IF Truthy(self.pod_anti_affinity)
                 THEN PodAntiAffinity_get_spec(self.pod_anti_affinity) ELSE Return(None),
             IF Truthy(self.node_affinity)
                 THEN NodeAffinity_get_spec(self.node_affinity) ELSE Return(None))
    ELSE Return(None)

\* obj.get_spec(): Python dispatches on the class of the instance
get_spec(self) ==
    CASE self.tag = "NodeSelectorRequirement" -> NodeSelectorRequirement_get_spec(self)
      [] self.tag = "NodeSelectorTerm" -> NodeSelectorTerm_get_spec(self)
      [] self.tag = "PreferredSchedulingTerm" -> PreferredSchedulingTerm_get_spec(self)
      [] self.tag = "LabelSelectorRequirement" -> LabelSelectorRequirement_get_spec(self)
      [] self.tag = "LabelSelector" -> LabelSelector_get_spec(self)
      [] self.tag = "PodAffinityTerm" -> PodAffinityTerm_get_spec(self)
      [] self.tag = "WeightedPodAffinityTerm" -> WeightedPodAffinityTerm_get_spec(self)
      [] self.tag = "PodAffinity" -> PodAffinity_get_spec(self)
      [] self.tag = "PodAntiAffinity" -> PodAntiAffinity_get_spec(self)
      [] self.tag = "NodeAffinity" -> NodeAffinity_get_spec(self)
      [] self.tag = "Affinity" -> Affinity_get_spec(self)

----------------------------------------------------------------------------
(* The arguments callers pass to the constructors *)

Seqs(S) == UNION {[1..k -> S] : k \in 0..MaxLen}
Lists(S) == {PyList(s) : s \in Seqs(S)}
OptLists(S) == {None} \cup Lists(S)

ValueStrs == {PyStr("zone-a"), PyStr("zone-b")}
NamespaceStrs == {PyStr("default")}
Weights == {PyInt(1), PyInt(50)}
Keys == {None, PyStr("app")}
TopologyKeys == {None, PyStr("kubernetes.io/hostname")}
LabelMaps == {None, PyDict(<<>>), PyDict(<< <<"app", "x">> >>)}

ZoneA == PyList(<<PyStr("zone-a")>>)

NodeSelectorRequirements == {NodeSelectorRequirement(v) : v \in OptLists(ValueStrs)}
SomeNodeSelectorRequirements ==
    {NodeSelectorRequirement(None), NodeSelectorRequirement(ZoneA)}

NodeSelectorTerms ==
    {NodeSelectorTerm(e, f) : e \in OptLists(SomeNodeSelectorRequirements),
                              f \in OptLists(SomeNodeSelectorRequirements)}
SomeNodeSelectorTerms ==
    {NodeSelectorTerm(None, None),
     NodeSelectorTerm(PyList(<<NodeSelectorRequirement(ZoneA)>>), None),
     NodeSelectorTerm(PyList(<<NodeSelectorRequirement(ZoneA)>>), PyList(<<>>)),
     NodeSelectorTerm(PyList(<<NodeSelectorRequirement(None)>>), PyList(<<>>))}

PreferredSchedulingTerms ==
    {PreferredSchedulingTerm(t, w) : t \in Lists(SomeNodeSelectorTerms), w \in Weights}
SomePreferredSchedulingTerms ==
    {PreferredSchedulingTerm(
         PyList(<<NodeSelectorTerm(PyList(<<NodeSelectorRequirement(ZoneA)>>),
                                   PyList(<<>>))>>), PyInt(50)),
     PreferredSchedulingTerm(PyList(<<NodeSelectorTerm(None, None)>>), PyInt(1))}

LabelSelectorRequirements ==
    {LabelSelectorRequirement(k, o, v) :
        k \in Keys, o \in {None} \cup LabelOperators, v \in OptLists(ValueStrs)}
SomeLabelSelectorRequirements ==
    {LabelSelectorRequirement(PyStr("app"), LabelOperator("In"), PyList(<<PyStr("x")>>)),
     LabelSelectorRequirement(PyStr("app"), LabelOperator("Exists"), None)}

LabelSelectors ==
    {LabelSelector(e, l) : e \in OptLists(SomeLabelSelectorRequirements),
                           l \in LabelMaps}
SomeLabelSelectors ==
    {LabelSelector(None, None),
     LabelSelector(PyList(<<LabelSelectorRequirement(PyStr("app"), LabelOperator("In"),
                                                     PyList(<<PyStr("x")>>))>>), None),
     LabelSelector(PyList(<<>>), PyDict(<< <<"app", "x">> >>)),
     LabelSelector(None, PyDict(<< <<"app", "x">> >>))}

PodAffinityTerms ==
    {PodAffinityTerm(k, l, n, s) :
        k \in TopologyKeys, l \in {None} \cup SomeLabelSelectors,
        n \in {None} \cup SomeLabelSelectors, s \in OptLists(NamespaceStrs)}
SomePodAffinityTerms ==
    {PodAffinityTerm(PyStr("kubernetes.io/hostname"), None, None, None),
     PodAffinityTerm(PyStr("kubernetes.io/hostname"), LabelSelector(None, None), None,
                     PyList(<<PyStr("default")>>)),
     PodAffinityTerm(PyStr("kubernetes.io/hostname"),
                     LabelSelector(None, PyDict(<< <<"app", "x">> >>)), None, None)}

WeightedPodAffinityTerms ==
    {WeightedPodAffinityTerm(t, w) :
        t \in {None} \cup SomePodAffinityTerms, w \in Weights}
SomeWeightedPodAffinityTerms ==
    {WeightedPodAffinityTerm(
         PodAffinityTerm(PyStr("kubernetes.io/hostname"), None, None, None), PyInt(50)),
     WeightedPodAffinityTerm(
         PodAffinityTerm(PyStr("kubernetes.io/hostname"), LabelSelector(None, None), None,
                         PyList(<<PyStr("default")>>)), PyInt(1))}

PodAffinities ==
    {PodAffinity(p, r) : p \in OptLists(SomeWeightedPodAffinityTerms),
                         r \in OptLists(SomePodAffinityTerms)}
SomePodAffinities ==
    {PodAffinity(None, None),
     PodAffinity(PyList(<<>>), None),
     PodAffinity(None, PyList(<<PodAffinityTerm(PyStr("kubernetes.io/hostname"),
                                                None, None, None)>>))}

PodAntiAffinities ==
    {PodAntiAffinity(p, r) : p \in OptLists(SomeWeightedPodAffinityTerms),
                             r \in OptLists(SomePodAffinityTerms)}
SomePodAntiAffinities ==
    {PodAntiAffinity(None, None),
     PodAntiAffinity(PyList(<<>>), None),
     PodAntiAffinity(None, PyList(<<PodAffinityTerm(PyStr("kubernetes.io/hostname"),
                                                    None, None, None)>>))}

NodeAffinities ==
    {NodeAffinity(p, r) : p \in OptLists(SomePreferredSchedulingTerms),
                          r \in {None} \cup SomeNodeSelectorTerms}
SomeNodeAffinities ==
    {NodeAffinity(None, None),
     NodeAffinity(PyList(<<>>), None),
     NodeAffinity(None, NodeSelectorTerm(PyList(<<NodeSelectorRequirement(ZoneA)>>),
                                         PyList(<<>>)))}

Affinities ==
    {Affinity(pa, paa, na) : pa \in {None} \cup SomePodAffinities,
                             paa \in {None} \cup SomePodAntiAffinities,
                             na \in {None} \cup SomeNodeAffinities}

----------------------------------------------------------------------------
(* The affinity state machine: construct one node, then materialize it *)

NoObj == [tag |-> "unconstructed"]
NoResult == [tag |-> "nocall"]
NoSvc == [tag |-> "unconstructed"]
NoCall == [api |-> "none", namespace |-> "", name |-> "", defaulted |-> FALSE]

InitAffinity ==
    /\ obj = NoObj
    /\ result = NoResult
    /\ prev = NoResult
    /\ calls = 0

InitService ==
    /\ svc = NoSvc
    /\ cluster = {}
    /\ lastCall = NoCall
    /\ lastOut = NoResult

Init == InitAffinity /\ InitService

\* a constructor call: the caller now holds the new instance
Construct(o) ==
    /\ obj' = o
    /\ UNCHANGED <<result, prev, calls>>
    /\ UNCHANGED serviceVars

New_NodeSelectorRequirement ==
    /\ obj = NoObj
    /\ \E o \in NodeSelectorRequirements : Construct(o)
New_NodeSelectorTerm ==
    /\ obj = NoObj
    /\ \E o \in NodeSelectorTerms : Construct(o)
New_PreferredSchedulingTerm ==
    /\ obj = NoObj
    /\ \E o \in PreferredSchedulingTerms : Construct(o)
New_LabelSelectorRequirement ==
    /\ obj = NoObj
    /\ \E o \in LabelSelectorRequirements : Construct(o)
New_LabelSelector ==
    /\ obj = NoObj
    /\ \E o \in LabelSelectors : Construct(o)
New_PodAffinityTerm ==
    /\ obj = NoObj
    /\ \E o \in PodAffinityTerms : Construct(o)
New_WeightedPodAffinityTerm ==
    /\ obj = NoObj
    /\ \E o \in WeightedPodAffinityTerms : Construct(o)
New_PodAffinity ==
    /\ obj = NoObj
    /\ \E o \in PodAffinities : Construct(o)
New_PodAntiAffinity ==
    /\ obj = NoObj
    /\ \E o \in PodAntiAffinities : Construct(o)
New_NodeAffinity ==
    /\ obj = NoObj
    /\ \E o \in NodeAffinities : Construct(o)
New_Affinity ==
    /\ obj = NoObj
    /\ \E o \in Affinities : Construct(o)

\* a get_spec() that rewrites the list fields of self while it walks them
CallGetSpecMutating ==
    /\ obj # NoObj
    /\ calls < MaxCalls
    /\ result' = get_spec(obj)
    /\ prev' = result
    /\ calls' = calls + 1
    /\ obj' = [f \in DOMAIN obj |->
                 IF f # "tag" /\ obj[f].tag = "list" THEN PyList(<<>>) ELSE obj[f]]
    /\ UNCHANGED serviceVars

\* obj.get_spec(): no get_spec assigns to a field of self or of a child
CallGetSpec ==
    /\ obj # NoObj
    /\ calls < MaxCalls
    /\ result' = get_spec(obj)
    /\ prev' = result
    /\ calls' = calls + 1
    /\ UNCHANGED obj
    /\ UNCHANGED serviceVars

----------------------------------------------------------------------------
(* The workflow service.  The generated WorkflowServiceApi is the remote    *)
(* side: it creates a workflow in the namespace of the request, and deletes *)
(* one from the namespace of the request or answers with an ApiException.   *)

Domains == {"argo.example", "argo.internal"}
Namespaces == {"default", "argo", "prod"}
WorkflowNames == {"wf-a", "wf-b"}
Omitted == "<omitted>"

\* WorkflowService(domain, token, namespace='default')
WorkflowService_init ==
    /\ svc = NoSvc
    /\ \E domain \in Domains, namespace \in Namespaces \cup {Omitted} :
          svc' = [tag |-> "WorkflowService",
                  domain |-> domain,
                  namespace |-> IF namespace = Omitted THEN "default" ELSE namespace]
    /\ UNCHANGED <<cluster, lastCall, lastOut>>
    /\ UNCHANGED affinityVars

\* submit(workflow, namespace='default'): create_workflow(namespace, request)
submit_With(name, namespace) ==
    LET ns == IF namespace = Omitted THEN "default" ELSE namespace
    IN  /\ lastCall' = [api |-> "create_workflow", namespace |-> ns, name |-> name,
                        defaulted |-> (namespace = Omitted)]
        /\ IF <<ns, name>> \in cluster
           THEN /\ lastOut' = Raise("ApiException")
                /\ UNCHANGED cluster
           ELSE /\ lastOut' = Return([tag |-> "workflow", namespace |-> ns, name |-> name])
                /\ cluster' = cluster \cup {<<ns, name>>}

submit ==
    /\ svc # NoSvc
    /\ \E name \in WorkflowNames, namespace \in Namespaces \cup {Omitted} :
          submit_With(name, namespace)
    /\ UNCHANGED svc
    /\ UNCHANGED affinityVars

\* delete(name): delete_workflow(self._namespace, name)
delete ==
    /\ svc # NoSvc
    /\ \E name \in WorkflowNames :
          /\ lastCall' = [api |-> "delete_workflow", namespace |-> svc.namespace,
                          name |-> name, defaulted |-> FALSE]
          /\ IF <<svc.namespace, name>> \in cluster
             THEN /\ lastOut' = Return([tag |-> "deleted", namespace |-> svc.namespace,
                                        name |-> name])
                  /\ cluster' = cluster \ {<<svc.namespace, name>>}
             ELSE /\ lastOut' = Raise("ApiException")
                  /\ UNCHANGED cluster
    /\ UNCHANGED svc
    /\ UNCHANGED affinityVars

\* get_workflow_link(name): f'https://{domain}/workflows/{namespace}/{name}?tab=workflow'
get_workflow_link ==
    /\ svc # NoSvc
    /\ \E name \in WorkflowNames :
          /\ UNCHANGED lastCall
          /\ lastOut' = Return([tag |-> "str",
                                parts |-> <<"https://", svc.domain, "/workflows/",
                                            svc.namespace, "/", name, "?tab=workflow">>])
    /\ UNCHANGED <<svc, cluster>>
    /\ UNCHANGED affinityVars

NextService ==
    \/ WorkflowService_init
    \/ submit
    \/ delete
    \/ get_workflow_link

SpecService == Init /\ [][NextService]_vars

Next ==
    \/ New_NodeSelectorRequirement
    \/ New_NodeSelectorTerm
    \/ New_PreferredSchedulingTerm
    \/ New_LabelSelectorRequirement
    \/ New_LabelSelector
    \/ New_PodAffinityTerm
    \/ New_WeightedPodAffinityTerm
    \/ New_PodAffinity
    \/ New_PodAntiAffinity
    \/ New_NodeAffinity
    \/ New_Affinity
    \/ CallGetSpec

Spec == Init /\ [][Next]_vars

----------------------------------------------------------------------------
(* What the claims speak of *)

Called == calls >= 1
Returned == Called /\ result.tag = "return"
Absent(out) == out = Return(None)
Emitted(out) == out.tag = "return" /\ out.value # None

NodeKinds ==
    {"NodeSelectorRequirement", "NodeSelectorTerm", "PreferredSchedulingTerm",
     "LabelSelectorRequirement", "LabelSelector", "PodAffinityTerm",
     "WeightedPodAffinityTerm", "PodAffinity", "PodAntiAffinity", "NodeAffinity",
     "Affinity"}
\* the node kinds that have an absent state, and the optional fields of each
AbsentKinds ==
    {"NodeSelectorRequirement", "NodeSelectorTerm", "LabelSelector", "PodAffinity",
     "PodAntiAffinity", "NodeAffinity", "Affinity"}
CategoryKinds == {"PodAffinity", "PodAntiAffinity", "NodeAffinity"}
OptionalFields(o) == DOMAIN o \ {"tag"}

\* a child contributes nothing: it is unset, or it is a node whose own
\* get_spec() is absent
ChildAbsent(c) == c = None \/ (c.tag \in NodeKinds /\ Absent(get_spec(c)))

\* no list anywhere in a materialized value holds a None element
RECURSIVE NoNullElement(_)
NoNullElement(v) ==
    CASE v.tag = "list" ->
            \A i \in 1..Len(v.items) : v.items[i] # None /\ NoNullElement(v.items[i])
      [] v.tag \in {"None", "str", "int", "dict"} -> TRUE
      [] OTHER -> \A f \in DOMAIN v \ {"tag"} : NoNullElement(v[f])

Preferred(o) == o.preferred_during_scheduling_ignored_during_execution
Required(o) == o.required_during_scheduling_ignored_during_execution

\* the four literal wire strings of the operator
OperatorLiteral ==
    [n \in LabelOperatorNames |->
        CASE n = "In" -> "In" [] n = "NotIn" -> "NotIn"
          [] n = "Exists" -> "Exists" [] n = "DoesNotExist" -> "DoesNotExist"]

----------------------------------------------------------------------------
(* The claims *)

\* C1: absence propagates upward.  A node of a kind that has an absent state,
\* each of whose optional fields is unset or is a node that materializes to
\* absent, materializes to absent itself; in particular Affinity never
\* returns a record whose three category fields are all absent.
C1_AbsencePropagates ==
    (Called /\ obj.tag \in AbsentKinds
            /\ \A f \in OptionalFields(obj) : ChildAbsent(obj[f]))
        => Absent(result)

\* C2: no null placeholders.  No list in the record returned by get_spec()
\* holds an absent (None) element.
C2_NoNullPlaceholders ==
    Returned => NoNullElement(result.value)

\* C3: NodeSelectorTerm.get_spec() is absent iff both expressions and fields
\* are absent; in every other case it completes without error and returns a
\* record whose match_expressions / match_fields are the materialized
\* children of the lists that were set.
C3_NodeSelectorTermMaterializes ==
    (Called /\ obj.tag = "NodeSelectorTerm") =>
        IF obj.expressions = None /\ obj.fields = None
        THEN Absent(result)
        ELSE /\ Emitted(result)
             /\ result.value.tag = "ArgoNodeSelectorTerm"
             /\ obj.expressions # None =>
                    result.value.match_expressions.items
                        = [i \in DOMAIN obj.expressions.items |->
                              Value(NodeSelectorRequirement_get_spec(obj.expressions.items[i]))]
             /\ obj.fields # None =>
                    result.value.match_fields.items
                        = [i \in DOMAIN obj.fields.items |->
                              Value(NodeSelectorRequirement_get_spec(obj.fields.items[i]))]

\* C4: LabelSelector.get_spec() is absent iff both match_expressions and
\* match_labels are absent, and otherwise completes without error and returns
\* a record in which every field that was set appears: match_labels is passed
\* through unchanged, match_expressions is the materialized list.
C4_LabelSelectorMaterializes ==
    (Called /\ obj.tag = "LabelSelector") =>
        IF obj.match_expressions = None /\ obj.match_labels = None
        THEN Absent(result)
        ELSE /\ Emitted(result)
             /\ result.value.tag = "ArgoLabelSelector"
             /\ obj.match_labels # None =>
                    /\ "match_labels" \in DOMAIN result.value
                    /\ result.value.match_labels = obj.match_labels
             /\ obj.match_expressions # None =>
                    result.value.match_expressions.items
                        = [i \in DOMAIN obj.match_expressions.items |->
                              Value(LabelSelectorRequirement_get_spec(
                                        obj.match_expressions.items[i]))]

\* C5: NodeAffinity, PodAffinity and PodAntiAffinity collapse alike: absent
\* iff both the preferred and the required field are None; otherwise the
\* record has its preferred section populated iff the preferred field is not
\* None and its required section populated iff the required field is not
\* None.  Stated of the calls that return.
C5_CategoriesCollapseAlike ==
    (Returned /\ obj.tag \in CategoryKinds) =>
        IF Preferred(obj) = None /\ Required(obj) = None
        THEN Absent(result)
        ELSE /\ Emitted(result)
             /\ (Preferred(result.value) # None) <=> (Preferred(obj) # None)
             /\ (Required(result.value) # None) <=> (Required(obj) # None)

C7_MandatoryFieldsSet ==
    /\ obj.tag = "PodAffinityTerm" => obj.topology_key # None
    /\ obj.tag = "LabelSelectorRequirement" => obj.key # None /\ obj.operator # None
    /\ obj.tag = "WeightedPodAffinityTerm" => obj.pod_affinity_term # None

\* C8: PodAffinityTerm.get_spec() and WeightedPodAffinityTerm.get_spec() always
\* return a record.  The PodAffinityTerm record carries the topology key, each
\* selector exactly when the field is set and materializes to non-absent, and
\* the namespaces verbatim; the weighted record is the weight with the
\* materialized term.  Stated of the nodes whose mandatory fields are set.
C8_PodAffinityTermsAlwaysEmit ==
    /\ (Called /\ obj.tag = "PodAffinityTerm" /\ obj.topology_key # None) =>
          /\ Emitted(result)
          /\ result.value.tag = "ArgoPodAffinityTerm"
          /\ result.value.topology_key = obj.topology_key
          /\ result.value.namespaces = obj.namespaces
          /\ (result.value.label_selector # None) <=>
                (obj.label_selector # None
                    /\ Emitted(LabelSelector_get_spec(obj.label_selector)))
          /\ (result.value.namespace_selector # None) <=>
                (obj.namespace_selector # None
                    /\ Emitted(LabelSelector_get_spec(obj.namespace_selector)))
    /\ (Called /\ obj.tag = "WeightedPodAffinityTerm" /\ obj.pod_affinity_term # None
               /\ obj.pod_affinity_term.topology_key # None) =>
          /\ Emitted(result)
          /\ result.value.tag = "ArgoWeightedPodAffinityTerm"
          /\ result.value.weight = obj.weight
          /\ Return(result.value.pod_affinity_term)
                = PodAffinityTerm_get_spec(obj.pod_affinity_term)

\* C9: LabelSelectorRequirement.get_spec() returns the record {key, operator,
\* values} for every key, every LabelOperator and every values; the operator
\* is one of the four literals In, NotIn, Exists, DoesNotExist, each member
\* giving its own, and key and values pass through unchanged.
C9_LabelSelectorRequirementRecord ==
    (Called /\ obj.tag = "LabelSelectorRequirement" /\ obj.operator \in LabelOperators) =>
        result = Return([tag |-> "ArgoLabelSelectorRequirement",
                         key |-> obj.key,
                         operator |-> PyStr(OperatorLiteral[obj.operator.member]),
                         values |-> obj.values])

\* a NotIn requirement without values was materialized
C9_Witness ==
    /\ Called
    /\ obj.tag = "LabelSelectorRequirement"
    /\ obj.operator = LabelOperator("NotIn")
    /\ obj.values = None
    /\ Emitted(result)
    /\ result.value.operator = PyStr("NotIn")

\* C10: a WorkflowService constructed with namespace N targets N in every
\* operation: a submit without a namespace argument creates the workflow in
\* N, delete deletes from N and get_workflow_link links under N.
C10_ServiceTargetsItsNamespace ==
    /\ (lastCall.api = "create_workflow" /\ lastCall.defaulted) =>
          lastCall.namespace = svc.namespace
    /\ lastCall.api = "delete_workflow" => lastCall.namespace = svc.namespace
    /\ (lastOut.tag = "return" /\ lastOut.value.tag = "str") =>
          lastOut.value.parts[4] = svc.namespace

====
